---------------------------- MODULE Spec2Model ----------------------------
(***************************************************************************)
(* Jarvis: a voice loop (main.py), a dashboard (jarvis_desktop.py), the    *)
(* newline-delimited JSON event log they share, and the tool functions     *)
(* (tools/*.py).  Each subsystem has its own specification over the        *)
(* variables it owns; the variables of the other subsystems stay put.      *)
(***************************************************************************)
EXTENDS Integers, Sequences, FiniteSets, TLC

VARIABLES
    \* ---- the event log file (shared by both processes) ----
    logFile,                \* the file's content, a sequence of symbols
    \* ---- voice loop, main.py write() ----
    conversation_mode,      \* main.py:121
    last_interaction_time,  \* main.py:122, Absent until the wake word
    now,                    \* time.time() in whole seconds
    vpc,                    \* where the loop is: "listen" or "invoking"
    vlast,                  \* history: what the last loop step did
    vwriting,               \* the Event a log_event of the voice process is
                            \* in the middle of writing, or NoEvent
    \* ---- dashboard, jarvis_desktop.py JarvisDashboard ----
    hud,                    \* the view state the event handlers fold
    log_pos,                \* jarvis_desktop.py:79
    executor,               \* jarvis_desktop.py:75, TRUE once _setup_agent made it
    agentWorkers,           \* _run_agent threads that have not finished
    uiQueue,                \* callbacks handed to root.after(0, ...), in order
    resp_label,             \* the latency shown, in ms (Absent shows "--")
    convo_label,            \* the exchange count shown
    hist,                   \* history: how many times _on_send ran, whether a
                            \* log write of the dashboard failed, and where
                            \* the last polling tick started reading
    \* ---- speed test (jarvis_desktop.py, tools/system_insights.py) ----
    speed,                  \* speed_running, speed_text, the measurements in
                            \* progress and the callbacks not yet run
    \* ---- tools (tools/todo.py, bambu_status.py, system_insights.py) ----
    todoFile,               \* slash_tasks.json
    clockMs,                \* int(time.time() * 1000)
    toolRet,                \* history: the last tool call and how it ended
    vitals,                 \* the machine's capabilities, the texts the
                            \* dashboard's samplers gave, and the last
                            \* sampler of system_insights with its outcome
    \* ---- launcher, start_jarvis.py main() ----
    launcher,               \* args, processes, alive, the loop index, where
                            \* main() is, and whether Ctrl-C arrived
    children                \* each child process: not started, alive or
                            \* exited, and whether terminate() was sent

voiceVars == <<conversation_mode, last_interaction_time, now, vpc, vlast>>
hudVars == <<hud, log_pos, executor, agentWorkers, uiQueue, resp_label,
             convo_label, hist>>
toolVars == <<speed, todoFile, clockMs, toolRet, vitals>>
launcherVars == <<launcher, children>>
vars == <<logFile, voiceVars, vwriting, hudVars, toolVars, launcherVars>>

\* What a step of one subsystem leaves alone
NotVoice == <<vwriting, hudVars, toolVars, launcherVars>>
NotWriter == <<voiceVars, hudVars, toolVars, launcherVars>>
NotHud == <<voiceVars, vwriting, toolVars, launcherVars>>
NotSpeed == <<logFile, voiceVars, vwriting, hudVars, todoFile, clockMs,
              vitals, launcherVars>>
NotTodo == <<logFile, voiceVars, vwriting, hudVars, speed, vitals, launcherVars>>
NotVitals == <<logFile, voiceVars, vwriting, hud, log_pos, executor,
               agentWorkers, uiQueue, hist, speed, todoFile, clockMs, toolRet,
               launcherVars>>
NotLauncher == <<logFile, voiceVars, vwriting, hudVars, toolVars>>

---------------------------------------------------------------------------
(* Bounds of the model *)

MaxTime == 60       \* the clock stops here
MaxVoiceLog == 9    \* the voice loop stops once the log holds this many symbols
MaxFile == 9        \* with the dashboard: the log holds at most this many symbols
MaxSends == 2       \* messages typed into the dashboard
MaxPresses == 3     \* presses of the "Run speed test" button
MaxAgents == 2      \* agent invocations inside system_insights at one time
MaxTasks == 2       \* records the to-do store holds
ShortTime == 25     \* the voice loop's clock when it runs beside the dashboard
LoggedSends == 1    \* messages typed while the voice loop runs beside the dashboard
MaxMs == 2          \* the millisecond clock stops here

(* Program constants *)

CONVERSATION_TIMEOUT == 30
LISTEN_TIMEOUT == 10
ERROR_SLEEP == 1
Absent == -1

\* A latency_ms that is text, not a number (jarvis_desktop.py:509 raises
\* TypeError on it)
NotANumber == -2

\* How long a capture, an agent call or a spoken phrase may take (seconds).
Durations == {5, 35}

---------------------------------------------------------------------------
(* Text: transcripts are sequences of characters *)

UpperCase == <<"J", "A", "R", "V", "I", "S", "H", "E", "Y">>
LowerCase == <<"j", "a", "r", "v", "i", "s", "h", "e", "y">>

\* str.lower() on one character
LowerChar(c) ==
    IF \E i \in DOMAIN UpperCase : UpperCase[i] = c
    THEN LowerCase[CHOOSE i \in DOMAIN UpperCase : UpperCase[i] = c]
    ELSE c

\* str.lower()
Lower(s) == [i \in DOMAIN s |-> LowerChar(s[i])]

\* needle in hay (Python substring test)
Contains(needle, hay) ==
    \E i \in 0..(Len(hay) - Len(needle)) :
        SubSeq(hay, i + 1, i + Len(needle)) = needle

TRIGGER_WORD == <<"j", "a", "r", "v", "i", "s">>

\* The transcripts recognize_google may return.
Utterances == <<
    <<"j", "a", "r", "v", "i", "s">>,
    <<"h", "e", "y", " ", "J", "a", "r", "v", "i", "s">>,
    <<"J", "A", "R", "V", "I", "S", " ", "y", "e", "s">>,
    <<"h", "i", " ", "j", "A", "r", "V", "i", "S", "!">>,
    <<"j", "a", "r", " ", "v", "i", "s">>,
    <<"h", "e", "y", " ", "j", "a", "r", "v", "i">>,
    <<"s", "i", "v", "r", "a", "j">>,
    <<>> >>

\* main.py:136 with the comparison as a mutation would have it: case kept
TriggeredCaseSensitive(transcript) == Contains(TRIGGER_WORD, transcript)

\* main.py:136 with the test always true (mutation)
TriggeredAlways(transcript) == TRUE

\* main.py:136  TRIGGER_WORD.lower() in transcript.lower()
Triggered(transcript) == Contains(Lower(TRIGGER_WORD), Lower(transcript))

---------------------------------------------------------------------------
(* Events and the log file *)

\* An Event as the code builds it (payload dict); a missing field is "" or Absent.
Ev(k, s, t, m, l, b) ==
    [kind |-> k, session |-> s, text |-> t, message |-> m, latency_ms |-> l, big |-> b]

NoEvent == Ev("none", "", "", "", Absent, FALSE)

\* The file is a sequence of symbols: the JSON text of an Event is its head H
\* followed by its tail T, NL is "\n", X is text that is not JSON.
Sym(s, e) == [sym |-> s, ev |-> e]
NL == Sym("NL", NoEvent)
Junk == Sym("X", NoEvent)

\* json.dump(payload, f): the text of one Event
JsonDump(e) == <<Sym("H", e), Sym("T", e)>>

\* log_event with the file opened for writing instead of appending (mutation)
LogEventTruncating(file, e, ok) == IF ok THEN JsonDump(e) \o <<NL>> ELSE file

\* main.py:52-61 / jarvis_desktop.py:520-529: log_event when nothing interleaves.
\* ok = FALSE is the swallowed failure (mkdir/open raised).
LogEvent(file, e, ok) == IF ok THEN file \o JsonDump(e) \o <<NL>> ELSE file

\* log_event that lets the exception of a failed write out to its caller
\* (mutation)
LogEventReturnsIfWritten(ok) == ok

\* main.py:53, 60-61 / jarvis_desktop.py:521, 528-529: the try around the write
\* catches every Exception, so the call returns to its caller whether or not
\* the write failed; FALSE would be an exception reaching the caller
LogEventReturns(ok) == TRUE

VoiceStatus(m) == Ev("status", "voice", "", m, Absent, FALSE)
VoiceUser(t) == Ev("user", "voice", t, "", Absent, FALSE)
VoiceAssistant(t, l, b) == Ev("assistant", "voice", t, "", l, b)
VoiceError(m) == Ev("error", "voice", "", m, Absent, FALSE)

\* Index of the first "\n" of s, 0 when there is none
FirstNewline(s) ==
    IF \E i \in DOMAIN s : s[i] = NL
    THEN CHOOSE i \in DOMAIN s : s[i] = NL /\ \A j \in 1..(i - 1) : s[j] # NL
    ELSE 0

\* f.readlines(): the text cut after each "\n"; a last piece may lack it
RECURSIVE ReadLines(_)
ReadLines(s) ==
    IF s = <<>> THEN <<>>
    ELSE LET k == FirstNewline(s)
         IN  IF k = 0 THEN <<s>>
             ELSE <<SubSeq(s, 1, k)>> \o ReadLines(SubSeq(s, k + 1, Len(s)))

\* line.strip(): the "\n" at either end goes
RECURSIVE Strip(_)
Strip(line) ==
    IF line = <<>> THEN line
    ELSE IF line[Len(line)] = NL THEN Strip(SubSeq(line, 1, Len(line) - 1))
    ELSE IF line[1] = NL THEN Strip(SubSeq(line, 2, Len(line)))
    ELSE line

\* json.loads(text): the Event when the text is the whole JSON text of one
\* Event, and a raised JSONDecodeError (ok = FALSE) otherwise
JsonLoads(text) ==
    IF /\ Len(text) = 2
       /\ text[1].sym = "H"
       /\ text[2].sym = "T"
       /\ text[1].ev = text[2].ev
    THEN [ok |-> TRUE, ev |-> text[1].ev]
    ELSE [ok |-> FALSE, ev |-> NoEvent]

---------------------------------------------------------------------------
(* Voice loop, main.py *)

VLast(op, outcome, heard, wrote) ==
    [op |-> op, outcome |-> outcome, heard |-> heard, wrote |-> wrote,
     modeBefore |-> conversation_mode, lastBefore |-> last_interaction_time,
     lenBefore |-> Len(logFile)]

VoiceInit ==
    /\ conversation_mode = FALSE
    /\ last_interaction_time = Absent
    /\ now = 0
    /\ vpc = "boot"
    /\ vlast = [op |-> "none", outcome |-> "", heard |-> 0, wrote |-> FALSE,
                modeBefore |-> FALSE, lastBefore |-> Absent, lenBefore |-> 0]

\* main.py:64-76 and 120-127: the model loads, write() starts, the microphone opens.
VoiceBoot(modelOk, micOk, w1, w2) ==
    /\ vpc = "boot"
    /\ IF ~modelOk
       THEN /\ logFile' = LogEvent(logFile, VoiceError("Failed to load model"), w1)
            /\ vpc' = "aborted"
       ELSE /\ logFile' = LogEvent(LogEvent(logFile, VoiceStatus("Model loaded"), w1),
                                   VoiceStatus("Jarvis listening for wake word"), w2)
            /\ vpc' = IF ~(LogEventReturns(w1) /\ LogEventReturns(w2)) THEN "aborted"
                      ELSE IF micOk THEN "listen" ELSE "exited"
    /\ vlast' = VLast("boot", IF modelOk THEN "ok" ELSE "fail", 0, w1)
    /\ UNCHANGED <<conversation_mode, last_interaction_time, now>>
    /\ UNCHANGED NotVoice

\* The WaitTimeoutError handler with >= for > (mutation)
OnWaitTimeoutAtThreshold(mode, last, t) ==
    IF mode /\ t - last >= CONVERSATION_TIMEOUT THEN FALSE ELSE mode

\* main.py:172-181: the WaitTimeoutError handler, the new conversation_mode
OnWaitTimeout(mode, last, t) ==
    IF mode /\ t - last > CONVERSATION_TIMEOUT THEN FALSE ELSE mode

\* The UnknownValueError handler with the inactivity check of the timeout
\* handler in it (mutation)
OnUnknownValueChecked(mode, last, t) ==
    IF mode /\ t - last > CONVERSATION_TIMEOUT THEN FALSE ELSE mode

\* main.py:182-183: the UnknownValueError handler, the new conversation_mode
OnUnknownValue(mode, last, t) == mode

\* main.py:184-186: any other exception, the new conversation_mode
OnOtherError(mode, last, t) == mode

\* main.py:132/146: listen(timeout=10) raises WaitTimeoutError
VoiceListenTimeout ==
    /\ vpc = "listen"
    /\ now + LISTEN_TIMEOUT <= MaxTime
    /\ now' = now + LISTEN_TIMEOUT
    /\ conversation_mode' = OnWaitTimeout(conversation_mode, last_interaction_time, now')
    /\ vlast' = VLast("listen", "timeout", 0, FALSE)
    /\ UNCHANGED <<last_interaction_time, vpc, logFile>>
    /\ UNCHANGED NotVoice

\* main.py:133/147: recognize_google raises UnknownValueError
VoiceListenUnknown(d) ==
    /\ vpc = "listen"
    /\ now + d <= MaxTime
    /\ now' = now + d
    /\ conversation_mode' = OnUnknownValue(conversation_mode, last_interaction_time, now')
    /\ vlast' = VLast("listen", "unknown", 0, FALSE)
    /\ UNCHANGED <<last_interaction_time, vpc, logFile>>
    /\ UNCHANGED NotVoice

\* main.py:184-186: listen or recognize raised something else; sleep(1)
VoiceListenError(d) ==
    /\ vpc = "listen"
    /\ now + d + ERROR_SLEEP <= MaxTime
    /\ now' = now + d + ERROR_SLEEP
    /\ conversation_mode' = OnOtherError(conversation_mode, last_interaction_time, now')
    /\ vlast' = VLast("listen", "error", 0, FALSE)
    /\ UNCHANGED <<last_interaction_time, vpc, logFile>>
    /\ UNCHANGED NotVoice

\* The wake word branch without its line 140 (mutation)
WakeTimeNotSet(last, t) == last

\* main.py:140  last_interaction_time = time.time(), right after line 139
\* set conversation_mode
WakeTime(last, t) == t

\* main.py:130-143: an utterance is transcribed while waiting for the wake word.
\* d is the capture, ds the spoken "Yes sir?".
VoiceHeardWaiting(u, d, ds, w) ==
    /\ vpc = "listen"
    /\ ~conversation_mode
    /\ Len(logFile) < MaxVoiceLog
    /\ IF Triggered(Utterances[u])
       THEN /\ now + d + ds <= MaxTime
            /\ now' = now + d + ds + (IF LogEventReturns(w) THEN 0 ELSE ERROR_SLEEP)
            /\ conversation_mode' = TRUE
            /\ last_interaction_time' = WakeTime(last_interaction_time, now + d + ds)
            /\ logFile' = LogEvent(logFile, VoiceStatus("Wake word detected"), w)
       ELSE /\ now + d <= MaxTime
            /\ now' = now + d
            /\ UNCHANGED <<conversation_mode, last_interaction_time, logFile>>
    /\ vlast' = VLast("listen", "heard", u, w)
    /\ UNCHANGED vpc
    /\ UNCHANGED NotVoice

\* main.py:144-154: a command is transcribed in conversation mode, logged,
\* and the agent is invoked (the call blocks).
VoiceHeardCommand(d, w) ==
    /\ vpc = "listen"
    /\ conversation_mode
    /\ Len(logFile) < MaxVoiceLog
    /\ now + d <= MaxTime
    /\ now' = now + d
    /\ logFile' = LogEvent(logFile, VoiceUser("cmd"), w)
    /\ vpc' = IF LogEventReturns(w) THEN "invoking" ELSE "listen"
    /\ vlast' = VLast("listen", "heard", 0, w)
    /\ UNCHANGED <<conversation_mode, last_interaction_time>>
    /\ UNCHANGED NotVoice

\* main.py:168-170 with the check left out (mutation)
AfterCommandNoCheck(mode, last, t) == mode

\* main.py:168-170: the check after the command was processed
AfterCommand(mode, last, t) ==
    IF t - last > CONVERSATION_TIMEOUT THEN FALSE ELSE mode

\* main.py:154-162, 168-170: the agent answers after da seconds, the reply is
\* logged and spoken (ds seconds), last_interaction_time is reset.
VoiceAgentReplies(da, ds, w) ==
    /\ vpc = "invoking"
    /\ now + da + ds <= MaxTime
    /\ now' = now + da + ds
    /\ logFile' = LogEvent(logFile, VoiceAssistant("reply", da * 1000, FALSE), w)
    /\ last_interaction_time' = IF LogEventReturns(w) THEN now'
                                ELSE last_interaction_time
    /\ conversation_mode' = AfterCommand(conversation_mode, last_interaction_time', now')
    /\ vpc' = "listen"
    /\ vlast' = VLast("agent", "ok", 0, w)
    /\ UNCHANGED NotVoice

\* main.py:163-170: the agent call raises after da seconds; an error Event is
\* logged, the apology is spoken (ds seconds); last_interaction_time is kept.
VoiceAgentFails(da, ds, w) ==
    /\ vpc = "invoking"
    /\ now + da + ds <= MaxTime
    /\ now' = now + da + ds
    /\ logFile' = LogEvent(logFile, VoiceError("Agent failure"), w)
    /\ conversation_mode' = IF LogEventReturns(w)
                            THEN AfterCommand(conversation_mode, last_interaction_time, now')
                            ELSE conversation_mode
    /\ vpc' = "listen"
    /\ vlast' = VLast("agent", "fail", 0, w)
    /\ UNCHANGED last_interaction_time
    /\ UNCHANGED NotVoice

\* main.py:154-170: the agent answers after da seconds and the reply is
\* logged, then print("Jarvis:", content) at line 160 raises (stdout is closed
\* or cannot encode the reply). Line 160 is inside the try of line 153, so the
\* handler of 163-166 runs: an error Event is logged and the apology spoken
\* (ds seconds); lines 161-162 are skipped.
VoiceReplyNotPrinted(da, ds, w1, w2) ==
    /\ vpc = "invoking"
    /\ now + da + ds <= MaxTime
    /\ now' = now + da + ds
    /\ logFile' = LogEvent(LogEvent(logFile,
                                    VoiceAssistant("reply", da * 1000, FALSE), w1),
                           VoiceError("Agent failure"), w2)
    /\ conversation_mode' = AfterCommand(conversation_mode, last_interaction_time, now')
    /\ vpc' = "listen"
    /\ vlast' = VLast("agent", "unprinted", 0, w1 /\ w2)
    /\ UNCHANGED last_interaction_time
    /\ UNCHANGED NotVoice

VoiceNext ==
    \/ \E modelOk, micOk, w1, w2 \in BOOLEAN : VoiceBoot(modelOk, micOk, w1, w2)
    \/ VoiceListenTimeout
    \/ \E d \in Durations : VoiceListenUnknown(d)
    \/ \E d \in Durations : VoiceListenError(d)
    \/ \E u \in DOMAIN Utterances, d, ds \in Durations, w \in BOOLEAN :
           VoiceHeardWaiting(u, d, ds, w)
    \/ \E d \in Durations, w \in BOOLEAN : VoiceHeardCommand(d, w)
    \/ \E da, ds \in Durations, w \in BOOLEAN : VoiceAgentReplies(da, ds, w)
    \/ \E da, ds \in Durations, w \in BOOLEAN : VoiceAgentFails(da, ds, w)
    \/ \E da, ds \in Durations, w1, w2 \in BOOLEAN :
           VoiceReplyNotPrinted(da, ds, w1, w2)

---------------------------------------------------------------------------
(* The voice process as a writer of the log (main.py log_event) *)

\* Latencies an assistant Event may carry, in ms
LatenciesMs == {0, 842}

\* The Events the voice loop hands to log_event (main.py:141, 149, 158, 165);
\* a reply may be longer than the file object's buffer (big).
VoiceEvents ==
    {VoiceStatus("Wake word detected"), VoiceUser("cmd"), VoiceError("Agent failure")}
    \cup {VoiceAssistant("reply", l, FALSE) : l \in LatenciesMs}
    \cup {VoiceAssistant("reply", 842, TRUE)}

\* An Event of a kind _handle_event has no branch for, with every field the
\* handler reads filled in
ForeignEvent == Ev("metric", "other", "cpu", "load", 842, FALSE)

\* The Event with one more key in its JSON object
WithExtra(e) == e @@ [extra |-> "x"]

\* What the log may hold when the dashboard starts: nothing; an Event followed
\* by a line that is not JSON; an assistant Event whose latency_ms is text;
\* an Event of an unknown kind followed by an assistant Event with one more
\* key; left by earlier runs or by other writers.
InitialLogs ==
    { <<>>,
      LogEvent(<<>>, VoiceUser("cmd"), TRUE) \o <<Junk, NL>>,
      LogEvent(<<>>, VoiceAssistant("reply", NotANumber, FALSE), TRUE),
      LogEvent(LogEvent(<<>>, ForeignEvent, TRUE),
               WithExtra(VoiceAssistant("reply", 842, FALSE)), TRUE) }

\* main.py:57-59: log_event of an Event whose text fits the buffer: the text
\* and its newline reach the file in one write when the file is closed.
VoiceLogSmall(e, ok) ==
    /\ vwriting = NoEvent
    /\ ~e.big
    /\ Len(logFile) + 3 <= MaxFile
    /\ logFile' = LogEvent(logFile, e, ok)
    /\ UNCHANGED vwriting
    /\ UNCHANGED NotWriter

\* main.py:58: json.dump of a long text fills the buffer, which is written out
\* before the newline is
VoiceLogBigBegin(e) ==
    /\ vwriting = NoEvent
    /\ e.big
    /\ Len(logFile) + 3 <= MaxFile
    /\ logFile' = logFile \o <<Sym("H", e)>>
    /\ vwriting' = e
    /\ UNCHANGED NotWriter

\* main.py:59 and the close of the file: the rest of the text and the newline
VoiceLogBigEnd ==
    /\ vwriting # NoEvent
    /\ logFile' = logFile \o <<Sym("T", vwriting), NL>>
    /\ vwriting' = NoEvent
    /\ UNCHANGED NotWriter

---------------------------------------------------------------------------
(* Dashboard, jarvis_desktop.py *)

HudEvent(k, t, l) == Ev(k, "hud", t, "", l, FALSE)

\* latency_ms / 1000.0: seconds, kept in microseconds
MsToSeconds(ms) == ms * 1000

\* last_latency * 1000 shown with format .0f: ms, rounded
SecondsToMs(us) == (us + 500) \div 1000

\* jarvis_desktop.py:132-144 _setup_agent: what the agent panel shows
AgentStatusText(ready) == IF ready THEN "Connected" ELSE "Model unavailable"

\* jarvis_desktop.py:60-90: the dashboard built, with the agent made or not
\* (_setup_agent catches the failure and __init__ goes on)
HudInit ==
    /\ executor \in BOOLEAN
    /\ hud = [convo_count |-> 0, last_latency |-> Absent,
              chat |-> << <<"meta", "Waiting for Jarvis events">> >>,
              agent_status_text |-> AgentStatusText(executor),
              agent_detail_text |-> IF executor THEN "Ready" ELSE "agent_error",
              status_label |-> "", thinking |-> FALSE, handled |-> <<>>,
              watch_after |-> TRUE]
    /\ log_pos = 0
    /\ agentWorkers = 0
    /\ uiQueue = <<>>
    /\ resp_label = Absent
    /\ convo_label = 0
    /\ hist = [sends |-> 0, dropped |-> FALSE, from |-> 0, eof |-> 0, read |-> FALSE]

\* jarvis_desktop.py:508  if latency_ms:
LatencyGiven(latency_ms) == latency_ms # Absent /\ latency_ms # 0

\* jarvis_desktop.py:509: _handle_event raises on this Event, after the chat
\* line and the count of lines 506-507
HandleRaises(event) ==
    /\ event.kind = "assistant"
    /\ LatencyGiven(event.latency_ms)
    /\ event.latency_ms = NotANumber

\* _handle_event whose last branch is an else: an Event of any other kind is
\* shown as an error (mutation)
HandleEventElseError(h, event) ==
    LET g == [h EXCEPT !.handled = Append(@, event)]
    IN  CASE event.kind = "user" ->
                [g EXCEPT !.chat = Append(@, <<"user", event.text>>)]
          [] event.kind = "assistant" ->
                [g EXCEPT !.chat = Append(@, <<"jarvis", event.text>>),
                          !.convo_count = @ + 1,
                          !.last_latency = IF /\ LatencyGiven(event.latency_ms)
                                              /\ ~HandleRaises(event)
                                           THEN MsToSeconds(event.latency_ms)
                                           ELSE @]
          [] event.kind = "status" ->
                [g EXCEPT !.agent_status_text = event.message,
                          !.status_label = event.message]
          [] OTHER ->
                [g EXCEPT !.chat = Append(@, <<"meta",
                              IF event.message # "" THEN event.message ELSE event.text>>),
                          !.agent_status_text = "LLM error",
                          !.agent_detail_text = IF event.text # "" THEN event.text ELSE @]

\* jarvis_desktop.py:496-518 _handle_event: the view after one Event
HandleEvent(h, event) ==
    LET g == [h EXCEPT !.handled = Append(@, event)]
    IN  CASE event.kind = "user" ->
                [g EXCEPT !.chat = Append(@, <<"user", event.text>>)]
          [] event.kind = "assistant" ->
                [g EXCEPT !.chat = Append(@, <<"jarvis", event.text>>),
                          !.convo_count = @ + 1,
                          !.last_latency = IF /\ LatencyGiven(event.latency_ms)
                                              /\ ~HandleRaises(event)
                                           THEN MsToSeconds(event.latency_ms)
                                           ELSE @]
          [] event.kind = "status" ->
                [g EXCEPT !.agent_status_text = event.message,
                          !.status_label = event.message]
          [] event.kind = "error" ->
                [g EXCEPT !.chat = Append(@, <<"meta",
                              IF event.message # "" THEN event.message ELSE event.text>>),
                          !.agent_status_text = "LLM error",
                          !.agent_detail_text = IF event.text # "" THEN event.text ELSE @]
          [] OTHER -> g

\* jarvis_desktop.py:494  self.root.after(800, self._watch_events)
Reschedule(h) == [h EXCEPT !.watch_after = TRUE]

\* The loop over lines that stops at the first line json.loads rejects (mutation)
RECURSIVE HandleLinesStopAtBad(_, _)
HandleLinesStopAtBad(h, lines) ==
    IF lines = <<>> THEN Reschedule(h)
    ELSE LET r == JsonLoads(Strip(Head(lines)))
         IN  IF r.ok THEN HandleLinesStopAtBad(HandleEvent(h, r.ev), Tail(lines))
             ELSE h

\* The loop over lines with an exception of _handle_event left uncaught: it
\* ends the tick before line 494 (mutation)
RECURSIVE HandleLinesStopAtRaise(_, _)
HandleLinesStopAtRaise(h, lines) ==
    IF lines = <<>> THEN Reschedule(h)
    ELSE LET r == JsonLoads(Strip(Head(lines)))
         IN  IF r.ok /\ HandleRaises(r.ev) THEN HandleEvent(h, r.ev)
             ELSE HandleLinesStopAtRaise(IF r.ok THEN HandleEvent(h, r.ev) ELSE h,
                                         Tail(lines))

\* jarvis_desktop.py:487-494: each line is parsed and handled on its own; a
\* line json.loads rejects, or an Event _handle_event raises on, is passed
\* over (except Exception: continue); then the next tick is scheduled
RECURSIVE HandleLines(_, _)
HandleLines(h, lines) ==
    IF lines = <<>> THEN Reschedule(h)
    ELSE LET r == JsonLoads(Strip(Head(lines)))
         IN  HandleLines(IF r.ok THEN HandleEvent(h, r.ev) ELSE h, Tail(lines))

\* The offset taken as the length of what the tick read (mutation)
TellLengthRead(file, pos) == Len(file) - pos

\* jarvis_desktop.py:479-481: f.tell() after seek(pos) and readlines(): the end
\* of the file
Tell(file, pos) == Len(file)

\* jarvis_desktop.py:475-494 _watch_events: one polling tick, run when its
\* timer fires. openOk = FALSE is the file that does not exist or the open
\* that raises: lines = [].
WatchEvents(openOk) ==
    /\ hud.watch_after
    /\ LET fired == [hud EXCEPT !.watch_after = FALSE]
       IN  IF openOk
           THEN /\ log_pos' = Tell(logFile, log_pos)
                /\ hud' = HandleLines(fired,
                              ReadLines(SubSeq(logFile, log_pos + 1, Len(logFile))))
           ELSE /\ log_pos' = log_pos
                /\ hud' = HandleLines(fired, <<>>)
    /\ hist' = [hist EXCEPT !.from = log_pos, !.eof = Len(logFile), !.read = openOk]
    /\ UNCHANGED <<logFile, executor, agentWorkers, uiQueue, resp_label, convo_label>>
    /\ UNCHANGED NotHud

\* jarvis_desktop.py:447-450: the latency _tick_vitals shows, in ms
ShownLatency(h) ==
    IF h.last_latency # Absent THEN SecondsToMs(h.last_latency) ELSE Absent

\* What the samplers depend on: whether import psutil worked, what running
\* nvidia-smi and netsh gives (the command is not installed, exits with an
\* error, prints nothing, or prints its report), and whether psutil finds a
\* battery
Host(psutil, nvidia, netsh, battery) ==
    [psutil |-> psutil, nvidia |-> nvidia, netsh |-> netsh, battery |-> battery]

Hosts ==
    {Host(p, g, n, b) : p \in BOOLEAN,
                        g \in {"missing", "fails", "silent", "ok"},
                        n \in {"missing", "fails", "ok"},
                        b \in BOOLEAN}

\* A machine with everything installed
FullHost == Host(TRUE, "ok", "ok", TRUE)

\* jarvis_desktop.py:587-604 _sample_gpu
SampleGpu(host) ==
    IF host.nvidia = "ok" THEN "GPU: name util temp" ELSE "GPU: n/a"

\* jarvis_desktop.py:606-645 _sample_wifi_ip: the Wi-Fi text and the IP text
SampleWifiIp(host) ==
    << IF host.netsh = "ok" THEN "Wi-Fi: ssid (signal)" ELSE "Wi-Fi: n/a",
       IF host.psutil THEN "IP: address" ELSE "IP: n/a" >>

\* jarvis_desktop.py:647-657 _sample_battery
SampleBattery(host) ==
    IF ~host.psutil THEN "Battery: n/a"
    ELSE IF ~host.battery THEN "Battery: not detected"
    ELSE "Battery: percent (status)"

\* jarvis_desktop.py:466-470: the four texts _tick_vitals sets
Sampled(host) ==
    [gpu_text |-> SampleGpu(host), wifi_text |-> SampleWifiIp(host)[1],
     ip_text |-> SampleWifiIp(host)[2], batt_text |-> SampleBattery(host),
     seen |-> host]

NoSampler == [name |-> "none", out |-> <<>>, host |-> FullHost]

\* jarvis_desktop.py:81-84, 90, 415: __init__ ends with the first _tick_vitals
VitalsInit(host) ==
    vitals = [host |-> host, shown |-> Sampled(host), tool |-> NoSampler]

\* jarvis_desktop.py:444-473 _tick_vitals: the labels and the sampled texts
\* are refreshed
TickVitals ==
    /\ resp_label' = ShownLatency(hud)
    /\ convo_label' = hud.convo_count
    /\ vitals' = [vitals EXCEPT !.shown = Sampled(vitals.host)]
    /\ UNCHANGED NotVitals

\* _on_send that returns when a reply is awaited (mutation)
SendStartsWorkerIfIdle(thinking) == ~thinking

\* jarvis_desktop.py:531-545: _on_send never looks at self.thinking, and the
\* entry's <Return> binding (line 370) calls it while _set_thinking has the
\* button disabled (572-579): every send with an executor starts a thread
SendStartsWorker(thinking) == TRUE

\* jarvis_desktop.py:531-545 _on_send with a non-blank text
OnSend(wrote) ==
    /\ hist.sends < MaxSends
    /\ Len(logFile) + 6 <= MaxFile
    /\ hist' = [hist EXCEPT !.sends = @ + 1, !.dropped = @ \/ ~wrote]
    /\ logFile' = LogEvent(logFile, HudEvent("user", "typed", Absent), wrote)
    /\ IF ~LogEventReturns(wrote)
       THEN /\ hud' = [hud EXCEPT !.chat = Append(@, <<"user", "typed">>)]
            /\ UNCHANGED agentWorkers
       ELSE IF ~executor
       THEN /\ hud' = [hud EXCEPT !.chat = @ \o << <<"user", "typed">>,
                                                  <<"meta", "Jarvis not ready">> >>]
            /\ UNCHANGED agentWorkers
       ELSE /\ hud' = [hud EXCEPT !.chat = Append(@, <<"user", "typed">>),
                                  !.thinking = TRUE]
            /\ agentWorkers' = IF SendStartsWorker(hud.thinking)
                               THEN agentWorkers + 1
                               ELSE agentWorkers
    /\ UNCHANGED <<log_pos, executor, uiQueue, resp_label, convo_label>>
    /\ UNCHANGED NotHud

\* jarvis_desktop.py:547-560 _run_agent, on its thread: the call returns
\* (latency l ms) or raises; the result is handed to root.after
RunAgentDone(success, l) ==
    /\ agentWorkers > 0
    /\ agentWorkers' = agentWorkers - 1
    /\ uiQueue' = Append(uiQueue, [content |-> IF success THEN "reply" ELSE "Error",
                                   latency |-> MsToSeconds(l), success |-> success])
    /\ hud' = IF success THEN hud
              ELSE [hud EXCEPT !.agent_status_text = "LLM error",
                               !.agent_detail_text = "exception"]
    /\ UNCHANGED <<logFile, log_pos, executor, resp_label, convo_label, hist>>
    /\ UNCHANGED NotHud

\* jarvis_desktop.py:564  self.convo_count += 1
FinishCount(n) == n + 1

\* jarvis_desktop.py:562-570 _finish_response, on the UI thread
FinishResponse(wrote) ==
    /\ uiQueue # <<>>
    /\ LET cb == Head(uiQueue)
       IN  /\ uiQueue' = Tail(uiQueue)
           /\ IF cb.success
              THEN /\ hud' = IF LogEventReturns(wrote)
                             THEN [hud EXCEPT !.convo_count = FinishCount(@),
                                              !.last_latency = cb.latency,
                                              !.status_label = "Connected, ready",
                                              !.chat = Append(@, <<"jarvis", cb.content>>),
                                              !.thinking = FALSE]
                             ELSE [hud EXCEPT !.convo_count = FinishCount(@),
                                              !.last_latency = cb.latency,
                                              !.status_label = "Connected, ready"]
                   /\ logFile' = LogEvent(logFile,
                          HudEvent("assistant", cb.content, SecondsToMs(cb.latency)),
                          wrote)
              ELSE /\ hud' = [hud EXCEPT !.chat = Append(@, <<"jarvis", cb.content>>),
                                         !.thinking = FALSE]
                   /\ UNCHANGED logFile
           /\ hist' = [hist EXCEPT !.dropped = @ \/ (cb.success /\ ~wrote)]
    /\ UNCHANGED <<log_pos, executor, agentWorkers, resp_label, convo_label>>
    /\ UNCHANGED NotHud

\* The Events of the voice loop that count as an exchange, as the chat sees them
ChatVoiceEvents == {VoiceAssistant("reply", 842, FALSE)}

\* The polling dashboard and the voice process writing the log
PollNext ==
    \/ \E openOk \in BOOLEAN : WatchEvents(openOk)
    \/ TickVitals
    \/ \E e \in VoiceEvents, ok \in BOOLEAN : VoiceLogSmall(e, ok)
    \/ \E e \in VoiceEvents : VoiceLogBigBegin(e)
    \/ VoiceLogBigEnd

\* The dashboard's chat: typed messages, their agent workers, the polling
\* tick, and the replies of the voice loop arriving in the log
ChatNext ==
    \/ \E openOk \in BOOLEAN : WatchEvents(openOk)
    \/ \E wrote \in BOOLEAN : OnSend(wrote)
    \/ \E success \in BOOLEAN, l \in LatenciesMs : RunAgentDone(success, l)
    \/ \E wrote \in BOOLEAN : FinishResponse(wrote)
    \/ \E e \in ChatVoiceEvents, ok \in BOOLEAN : VoiceLogSmall(e, ok)

\* Two of the transcripts: one with the wake word ("hey Jarvis") and one
\* without ("jar vis")
LoggedUtterances == {2, 5}

\* Both callers of the log functions: the steps of the voice loop that log,
\* for a short while, and the dashboard's chat without its polling
LoggingNext ==
    \/ \E modelOk, micOk, w1, w2 \in BOOLEAN : VoiceBoot(modelOk, micOk, w1, w2)
    \/ \E u \in LoggedUtterances, d, ds \in Durations, w \in BOOLEAN :
           (VoiceHeardWaiting(u, d, ds, w) /\ now' <= ShortTime)
    \/ \E d \in Durations, w \in BOOLEAN :
           (VoiceHeardCommand(d, w) /\ now' <= ShortTime)
    \/ \E da, ds \in Durations, w \in BOOLEAN :
           (VoiceAgentReplies(da, ds, w) /\ now' <= ShortTime)
    \/ \E da, ds \in Durations, w \in BOOLEAN :
           (VoiceAgentFails(da, ds, w) /\ now' <= ShortTime)
    \/ \E wrote \in BOOLEAN : (OnSend(wrote) /\ hist'.sends <= LoggedSends)
    \/ \E success \in BOOLEAN, l \in LatenciesMs : RunAgentDone(success, l)
    \/ \E wrote \in BOOLEAN : FinishResponse(wrote)

---------------------------------------------------------------------------
(* Text of tool arguments *)

\* str.strip(): the blanks at either end go
RECURSIVE StripSpaces(_)
StripSpaces(s) ==
    IF s = <<>> THEN s
    ELSE IF s[1] = " " THEN StripSpaces(Tail(s))
    ELSE IF s[Len(s)] = " " THEN StripSpaces(SubSeq(s, 1, Len(s) - 1))
    ELSE s

\* What a tool call left: kind is "none" before any call, "running" while the
\* call has not returned, "string" for a returned string and "raise" for an
\* exception that left the tool function; id, task and before belong to the
\* to-do tools.
Ret(tool, kind, text, id, task, before) ==
    [tool |-> tool, kind |-> kind, text |-> text, id |-> id, task |-> task,
     before |-> before]

\* slash_tasks.json does not exist
NoFile == [exists |-> FALSE, text |-> <<>>]

NoRet == Ret("", "none", "", Absent, <<>>, <<>>)

\* A tool call that has nothing to do with the to-do store
PlainRet(tool, kind, text) == Ret(tool, kind, text, Absent, <<>>, <<>>)

---------------------------------------------------------------------------
(* Speed test: the dashboard's button and the system_insights tool *)

\* jarvis_desktop.py:84-85 and 17-20; system_insights.py:13-16: lib is whether
\* import speedtest worked
SpeedInit(lib) ==
    [running |-> FALSE, text |-> "idle", lib |-> lib, workers |-> 0,
     results |-> <<>>, toolRuns |-> 0, presses |-> 0]

\* jarvis_desktop.py:661-669 _run_speedtest
RunSpeedtestBody(s) ==
    IF s.running THEN s
    ELSE IF ~s.lib THEN [s EXCEPT !.text = "install"]
    ELSE [s EXCEPT !.running = TRUE, !.text = "running", !.workers = @ + 1]

\* The button is pressed
RunSpeedtest ==
    /\ speed.presses < MaxPresses
    /\ speed' = [RunSpeedtestBody(speed) EXCEPT !.presses = @ + 1]
    /\ UNCHANGED toolRet
    /\ UNCHANGED NotSpeed

\* _speedtest_thread without its except: a measurement that raises ends the
\* thread with nothing handed to the UI thread (mutation)
SpeedtestThreadUncaught(ok) ==
    /\ speed.workers > 0
    /\ speed' = [speed EXCEPT !.workers = @ - 1,
                              !.results = IF ok THEN Append(@, "result") ELSE @]
    /\ UNCHANGED toolRet
    /\ UNCHANGED NotSpeed

\* jarvis_desktop.py:671-681 _speedtest_thread: the measurement ends, well or
\* with an exception, and the result is handed to the UI thread
SpeedtestThread(ok) ==
    /\ speed.workers > 0
    /\ speed' = [speed EXCEPT !.workers = @ - 1,
                              !.results = Append(@, IF ok THEN "result" ELSE "failed")]
    /\ UNCHANGED toolRet
    /\ UNCHANGED NotSpeed

\* jarvis_desktop.py:683-685 _set_speed_result, run by the UI thread
SetSpeedResult ==
    /\ speed.results # <<>>
    /\ speed' = [speed EXCEPT !.text = Head(speed.results),
                              !.running = FALSE,
                              !.results = Tail(@)]
    /\ UNCHANGED toolRet
    /\ UNCHANGED NotSpeed

\* Values of run_speedtest an agent may pass
SpeedtestArgs ==
    { <<>>, <<"n", "o">>, <<"y", "e", "s">>, <<" ", "Y", "E", "S", " ">>, <<"y">> }

\* system_insights.py:129
SpeedtestWanted(run_speedtest) ==
    Lower(StripSpaces(run_speedtest))
        \in { <<"y", "e", "s">>, <<"y">>, <<"t", "r", "u", "e">>, <<"1">>,
              <<"r", "u", "n">> }

\* subprocess.run raised and nothing caught it
Raised == <<"raise">>

\* system_insights.py:24-36 _cpu_info
CpuInfo(host) ==
    IF ~host.psutil THEN <<"CPU: install psutil">> ELSE <<"CPU: load">>

\* system_insights.py:39-55 _gpu_info: _run (19-21) has no try, so a command
\* that is not installed raises FileNotFoundError out of it
GpuInfo(host) ==
    IF host.nvidia = "missing" THEN Raised
    ELSE IF host.nvidia = "ok" THEN <<"GPU: name util temp">>
    ELSE <<"GPU: n/a">>

\* system_insights.py:74-88 _primary_ip
PrimaryIp(host) == IF host.psutil THEN "address" ELSE "n/a"

\* system_insights.py:58-71 _wifi_info
WifiInfo(host) ==
    IF host.netsh = "missing" THEN Raised
    ELSE IF host.netsh = "fails" THEN <<"Wi-Fi: n/a", "IP: n/a">>
    ELSE <<"Wi-Fi: ssid (signal)",
           IF PrimaryIp(host) = "n/a" THEN "IP: n/a" ELSE "IP: address">>

\* system_insights.py:91-100 _battery_info
BatteryInfo(host) ==
    IF ~host.psutil THEN <<"Battery: n/a">>
    ELSE IF ~host.battery THEN <<"Battery: not detected">>
    ELSE <<"Battery: percent (status)">>

SamplerNames == {"cpu", "gpu", "wifi", "battery"}

\* system_insights.py:120-127: the sampler system_insights calls
SamplerOut(name, host) ==
    CASE name = "cpu" -> CpuInfo(host)
      [] name = "gpu" -> GpuInfo(host)
      [] name = "wifi" -> WifiInfo(host)
      [] name = "battery" -> BatteryInfo(host)

\* system_insights calls one of its samplers
InsightsSampler(name) ==
    /\ vitals' = [vitals EXCEPT !.tool = [name |-> name,
                                          out |-> SamplerOut(name, vitals.host),
                                          host |-> vitals.host]]
    /\ UNCHANGED <<resp_label, convo_label>>
    /\ UNCHANGED NotVitals

\* The battery is taken out or put back while the programs run; what is
\* installed stays
BatteryChanges ==
    /\ vitals' = [vitals EXCEPT !.host.battery = ~@]
    /\ UNCHANGED <<resp_label, convo_label>>
    /\ UNCHANGED NotVitals

\* The samplers of the dashboard and of system_insights on a machine whose
\* capabilities vary
VitalsNext ==
    \/ TickVitals
    \/ \E name \in SamplerNames : InsightsSampler(name)
    \/ BatteryChanges

\* system_insights.py:117-132 up to the call of _speedtest: subprocess.run
\* raises FileNotFoundError when nvidia-smi (line 45) or netsh (line 59) is not
\* on the PATH, and nothing catches it; "measure" is a measurement started at
\* lines 107-111.
InsightsOutcome(run_speedtest, nvidiaSmi, netsh, lib) ==
    IF ~nvidiaSmi \/ ~netsh THEN "raise"
    ELSE IF SpeedtestWanted(run_speedtest) /\ lib THEN "measure"
    ELSE "string"

\* An agent (of the dashboard or of the voice loop) calls system_insights
SystemInsights(run_speedtest, nvidiaSmi, netsh) ==
    LET out == InsightsOutcome(run_speedtest, nvidiaSmi, netsh, speed.lib)
    IN  /\ speed.toolRuns < MaxAgents
        /\ speed' = IF out = "measure" THEN [speed EXCEPT !.toolRuns = @ + 1]
                    ELSE speed
        /\ toolRet' = PlainRet("system_insights",
                               IF out = "measure" THEN "running" ELSE out,
                               "")
        /\ UNCHANGED NotSpeed

\* system_insights.py:106-114 and 130-132: the measurement ends, well or with
\* an exception that _speedtest catches, and system_insights returns
SystemInsightsReturns(ok) ==
    /\ speed.toolRuns > 0
    /\ speed' = [speed EXCEPT !.toolRuns = @ - 1]
    /\ toolRet' = PlainRet("system_insights", "string",
                           IF ok THEN "result" ELSE "failed")
    /\ UNCHANGED NotSpeed

SpeedNext ==
    \/ RunSpeedtest
    \/ \E ok \in BOOLEAN : SpeedtestThread(ok)
    \/ SetSpeedResult
    \/ \E a \in SpeedtestArgs, nvidiaSmi, netsh \in BOOLEAN :
           SystemInsights(a, nvidiaSmi, netsh)
    \/ \E ok \in BOOLEAN : SystemInsightsReturns(ok)

---------------------------------------------------------------------------
(* The to-do store, tools/todo.py *)

\* A record of the store
Task(id, task, done) == [id |-> id, task |-> task, done |-> done]

\* slash_tasks.json holds text: "[", one piece per record, "]"
Piece(p, r) == [piece |-> p, rec |-> r]
Open == Piece("[", Task(Absent, <<>>, FALSE))
Close == Piece("]", Task(Absent, <<>>, FALSE))

\* json.dumps(tasks, indent=2)
JsonDumps(tasks) ==
    <<Open>> \o [i \in DOMAIN tasks |-> Piece("rec", tasks[i])] \o <<Close>>

\* json.loads of the file's text: the list, or a raised JSONDecodeError
JsonLoadsTasks(text) ==
    IF /\ Len(text) >= 2
       /\ text[1] = Open
       /\ text[Len(text)] = Close
       /\ \A i \in 2..(Len(text) - 1) : text[i].piece = "rec"
    THEN [ok |-> TRUE, tasks |-> [i \in 1..(Len(text) - 2) |-> text[i + 1].rec]]
    ELSE [ok |-> FALSE, tasks |-> <<>>]

\* A file holding text
FileOf(text) == [exists |-> TRUE, text |-> text]

\* todo.py:11-17 _load_tasks
LoadTasks(file) ==
    IF ~file.exists THEN <<>>
    ELSE LET r == JsonLoadsTasks(file.text)
         IN  IF r.ok THEN r.tasks ELSE <<>>

\* How Path.write_text may end: "ok"; "denied", the open raises and the file
\* stays as it was; "partial", the file was truncated and the write raises
\* after the first piece
SaveOutcomes == {"ok", "denied", "partial"}

\* todo.py:20-21 _save_tasks: the file it leaves
SaveTasks(file, tasks, how) ==
    IF how = "ok" THEN FileOf(JsonDumps(tasks))
    ELSE IF how = "partial" THEN FileOf(SubSeq(JsonDumps(tasks), 1, 1))
    ELSE file

\* Task descriptions an agent may pass
TaskTexts == { <<" ">>, <<" ", "a", " ">>, <<"b">> }

\* What the store may hold when the tools are first called: no file, an empty
\* list, a record of an earlier day, text cut short
InitialStores ==
    { NoFile,
      FileOf(JsonDumps(<<>>)),
      FileOf(JsonDumps(<<Task(0, <<"b">>, FALSE)>>)),
      FileOf(<<Open>>) }

\* The clock moves on between two tool calls
ClockTick ==
    /\ clockMs < MaxMs
    /\ clockMs' = clockMs + 1
    /\ UNCHANGED <<todoFile, toolRet>>
    /\ UNCHANGED NotTodo

\* todo.py:24-34 todo_add
TodoAdd(task, how) ==
    LET text == StripSpaces(task)
        tasks == LoadTasks(todoFile)
        added == Append(tasks, Task(clockMs, text, FALSE))
    IN  /\ Len(tasks) < MaxTasks
        /\ IF text = <<>>
           THEN /\ toolRet' = Ret("todo_add", "string", "provide", Absent, text, tasks)
                /\ UNCHANGED todoFile
           ELSE /\ todoFile' = SaveTasks(todoFile, added, how)
                /\ toolRet' = Ret("todo_add", IF how = "ok" THEN "string" ELSE "raise",
                                  "added", clockMs, text, tasks)
        /\ UNCHANGED clockMs
        /\ UNCHANGED NotTodo

\* todo.py:37-47 todo_list
TodoList ==
    /\ toolRet' = Ret("todo_list", "string",
                      IF LoadTasks(todoFile) = <<>> THEN "no tasks" ELSE "lines",
                      Absent, <<>>, LoadTasks(todoFile))
    /\ UNCHANGED <<todoFile, clockMs>>
    /\ UNCHANGED NotTodo

\* Values of task_id an agent may pass: the digits of a number, or other text
TaskIdArgs ==
    {[numeric |-> TRUE, n |-> n] : n \in 0..MaxMs}
    \cup {[numeric |-> FALSE, n |-> Absent]}

\* todo.py:53-56 int(task_id.strip())
ParseId(task_id) ==
    IF task_id.numeric THEN [ok |-> TRUE, target |-> task_id.n]
    ELSE [ok |-> FALSE, target |-> Absent]

\* The loop of todo.py:60-64 without its break: the last record whose id is
\* the target is the one found (mutation)
LastWithId(tasks, target) ==
    IF \E i \in DOMAIN tasks : tasks[i].id = target
    THEN CHOOSE i \in DOMAIN tasks :
             /\ tasks[i].id = target
             /\ \A j \in (i + 1)..Len(tasks) : tasks[j].id # target
    ELSE 0

\* todo.py:60-64: the first record whose id is the target, 0 when there is none
FirstWithId(tasks, target) ==
    IF \E i \in DOMAIN tasks : tasks[i].id = target
    THEN CHOOSE i \in DOMAIN tasks :
             /\ tasks[i].id = target
             /\ \A j \in 1..(i - 1) : tasks[j].id # target
    ELSE 0

\* todo.py:50-68 todo_complete
TodoComplete(task_id, how) ==
    LET p == ParseId(task_id)
        tasks == LoadTasks(todoFile)
        k == FirstWithId(tasks, p.target)
    IN  /\ IF ~p.ok
           THEN /\ toolRet' = Ret("todo_complete", "string", "numeric", Absent, <<>>, tasks)
                /\ UNCHANGED todoFile
           ELSE IF k = 0
           THEN /\ toolRet' = Ret("todo_complete", "string", "not found", p.target,
                                  <<>>, tasks)
                /\ UNCHANGED todoFile
           ELSE /\ todoFile' = SaveTasks(todoFile, [tasks EXCEPT ![k].done = TRUE], how)
                /\ toolRet' = Ret("todo_complete",
                                  IF how = "ok" THEN "string" ELSE "raise",
                                  "marked complete", p.target, <<>>, tasks)
        /\ UNCHANGED clockMs
        /\ UNCHANGED NotTodo

---------------------------------------------------------------------------
(* tools/bambu_status.py *)

\* Values of printer_ip and of the environment's BAMBU_IP
PrinterIps == { <<" ">>, <<" ", "1", "0", ".", "0", ".", "0", ".", "5">> }

\* How _fetch_status (bambu_status.py:14-19) may end: "raise" (no route, HTTP
\* error, body that is not JSON), or the JSON value of the body: "object", an
\* object whose "print" and "temperature" are objects or missing; "print null",
\* an object whose "print" is null; "array", a JSON array
FetchOutcomes == {"raise", "object", "print null", "array"}

\* bambu_status.py:22-52 bambu_printer_status
BambuOutcome(printer_ip, env_ip, fetch) ==
    LET ip == IF StripSpaces(printer_ip) # <<>> THEN StripSpaces(printer_ip)
              ELSE StripSpaces(env_ip)
    IN  IF ip = <<>> THEN [kind |-> "string", text |-> "set printer_ip"]
        ELSE IF fetch = "raise" THEN [kind |-> "string", text |-> "failed to reach"]
        ELSE IF fetch = "object" THEN [kind |-> "string", text |-> "status"]
        ELSE [kind |-> "raise", text |-> "AttributeError"]

BambuPrinterStatus(printer_ip, env_ip, fetch) ==
    LET out == BambuOutcome(printer_ip, env_ip, fetch)
    IN  /\ toolRet' = PlainRet("bambu_printer_status", out.kind, out.text)
        /\ UNCHANGED <<todoFile, clockMs>>
        /\ UNCHANGED NotTodo

ToolsNext ==
    \/ ClockTick
    \/ \E task \in TaskTexts, how \in SaveOutcomes : TodoAdd(task, how)
    \/ TodoList
    \/ \E task_id \in TaskIdArgs, how \in SaveOutcomes : TodoComplete(task_id, how)
    \/ \E printer_ip, env_ip \in PrinterIps, fetch \in FetchOutcomes :
           BambuPrinterStatus(printer_ip, env_ip, fetch)
    \/ \E a \in SpeedtestArgs, nvidiaSmi, netsh \in BOOLEAN :
           SystemInsights(a, nvidiaSmi, netsh)
    \/ \E ok \in BOOLEAN : SystemInsightsReturns(ok)

---------------------------------------------------------------------------
(* The launcher, start_jarvis.py *)

\* The scripts main() may launch, in the order of lines 22-25
Scripts == <<"jarvis_desktop.py", "main.py">>

ScriptNames == {Scripts[i] : i \in DOMAIN Scripts}

NotStarted == [state |-> "none", terminated |-> FALSE]

\* main() at line 21, with the flags argparse read
LauncherInit(no_hud, no_voice) ==
    /\ launcher = [no_hud |-> no_hud, no_voice |-> no_voice,
                   processes |-> <<>>, alive |-> <<>>, i |-> 1,
                   pc |-> "launch", interrupted |-> FALSE]
    /\ children = [c \in ScriptNames |-> NotStarted]

\* main() that does not look at its flags (mutation)
SuppressedNever(l, script) == FALSE

\* --no-hud and --no-voice, for the script lines 22 and 24 ask about
Suppressed(l, script) ==
    IF script = "jarvis_desktop.py" THEN l.no_hud ELSE l.no_voice

\* Where main() goes after the if of script i
AfterLaunch(l) ==
    IF l.i = Len(Scripts)
    THEN [l EXCEPT !.i = 1, !.pc = "while"]
    ELSE [l EXCEPT !.i = @ + 1, !.pc = "launch"]

\* launch(): subprocess.Popen starts the child and returns its handle
\* (lines 8-9, called at 23 and 25); a suppressed script is skipped
Launch ==
    /\ launcher.pc = "launch"
    /\ IF Suppressed(launcher, Scripts[launcher.i])
       THEN /\ launcher' = AfterLaunch(launcher)
            /\ UNCHANGED children
       ELSE /\ children' = [children EXCEPT ![Scripts[launcher.i]].state = "alive"]
            /\ launcher' = [launcher EXCEPT !.pc = "append"]
    /\ UNCHANGED NotLauncher

\* processes.append(...) of the handle launch() returned (lines 23, 25)
AppendLaunched ==
    /\ launcher.pc = "append"
    /\ launcher' = AfterLaunch([launcher EXCEPT
                       !.processes = Append(@, Scripts[launcher.i])])
    /\ UNCHANGED <<children, NotLauncher>>

\* while processes: (line 27) with the mutation that leaves at once
LoopContinuesNever(processes) == FALSE

\* while processes: (line 27)
LoopContinues(processes) == processes # <<>>

\* Line 27-28: the loop test; an empty list leaves the try block for finally
WhileProcesses ==
    /\ launcher.pc = "while"
    /\ launcher' = IF LoopContinues(launcher.processes)
                   THEN [launcher EXCEPT !.alive = <<>>, !.i = 1, !.pc = "poll"]
                   ELSE [launcher EXCEPT !.i = 1, !.pc = "finally"]
    /\ UNCHANGED <<children, NotLauncher>>

\* p.poll() is None
PollIsNone(p) == children[p].state = "alive"

\* Lines 29-31: one turn of for p in processes, or the end of the for
PollChild ==
    /\ launcher.pc = "poll"
    /\ launcher' =
          IF launcher.i > Len(launcher.processes)
          THEN [launcher EXCEPT !.pc = "assign"]
          ELSE [launcher EXCEPT
                   !.alive = IF PollIsNone(launcher.processes[launcher.i])
                             THEN Append(@, launcher.processes[launcher.i])
                             ELSE @,
                   !.i = @ + 1]
    /\ UNCHANGED <<children, NotLauncher>>

\* Line 32: processes = alive
AssignAlive ==
    /\ launcher.pc = "assign"
    /\ launcher' = [launcher EXCEPT !.processes = launcher.alive, !.pc = "sleep"]
    /\ UNCHANGED <<children, NotLauncher>>

\* Line 33: time.sleep(1)
Sleep ==
    /\ launcher.pc = "sleep"
    /\ launcher' = [launcher EXCEPT !.pc = "while"]
    /\ UNCHANGED <<children, NotLauncher>>

\* The positions inside the try block (lines 21-33)
InsideTry == {"launch", "append", "while", "poll", "assign", "sleep"}

\* Ctrl-C while main() is inside the try block: the interpreter raises
\* KeyboardInterrupt between two bytecodes, line 34 catches it and the
\* finally block runs
KeyboardInterrupt ==
    /\ launcher.pc \in InsideTry
    /\ launcher' = [launcher EXCEPT !.i = 1, !.pc = "finally",
                                    !.interrupted = TRUE]
    /\ UNCHANGED <<children, NotLauncher>>

\* Lines 37-39: one turn of the finally block's for, or main() returning
FinallyTerminate ==
    /\ launcher.pc = "finally"
    /\ IF launcher.i > Len(launcher.processes)
       THEN /\ launcher' = [launcher EXCEPT !.pc = "exited"]
            /\ UNCHANGED children
       ELSE /\ launcher' = [launcher EXCEPT !.i = @ + 1]
            /\ children' =
                  IF PollIsNone(launcher.processes[launcher.i])
                  THEN [children EXCEPT ![launcher.processes[launcher.i]].terminated = TRUE]
                  ELSE children
    /\ UNCHANGED NotLauncher

\* A child process ends, by itself or because of the signal
ChildExits(c) ==
    /\ children[c].state = "alive"
    /\ children' = [children EXCEPT ![c].state = "exited"]
    /\ UNCHANGED <<launcher, NotLauncher>>

\* The steps of main()
LauncherStep ==
    \/ Launch
    \/ AppendLaunched
    \/ WhileProcesses
    \/ PollChild
    \/ AssignAlive
    \/ Sleep
    \/ FinallyTerminate

LauncherNext ==
    \/ LauncherStep
    \/ KeyboardInterrupt
    \/ \E c \in ScriptNames : ChildExits(c)

---------------------------------------------------------------------------
(* Specifications *)

\* Both processes just started, the log holding one of logs
InitWith(logs, libs, stores, flags, hosts) ==
    /\ logFile \in logs
    /\ VoiceInit
    /\ vwriting = NoEvent
    /\ HudInit
    /\ \E lib \in libs : speed = SpeedInit(lib)
    /\ todoFile \in stores
    /\ clockMs = 1
    /\ toolRet = NoRet
    /\ \E no_hud, no_voice \in flags : LauncherInit(no_hud, no_voice)
    /\ \E host \in hosts : VitalsInit(host)

Init == InitWith(InitialLogs, {TRUE}, {NoFile}, {FALSE}, {FullHost})

\* The voice loop starting on an empty log
InitVoice == InitWith({<<>>}, {TRUE}, {NoFile}, {FALSE}, {FullHost})

\* The dashboard with or without the speedtest library
InitSpeed == InitWith({<<>>}, BOOLEAN, {NoFile}, {FALSE}, {FullHost})

\* The tools called on whatever the to-do store holds
InitTools == InitWith({<<>>}, {TRUE}, InitialStores, {FALSE}, {FullHost})

\* The dashboard started on any machine
InitVitals == InitWith({<<>>}, {TRUE}, {NoFile}, {FALSE}, Hosts)

\* The launcher started with any of its flags
InitLauncher == InitWith({<<>>}, {TRUE}, {NoFile}, BOOLEAN, {FullHost})

\* The voice loop alone, with its clock
SpecVoice == InitVoice /\ [][VoiceNext]_vars

\* The dashboard polling the log the voice process writes
SpecPoll == Init /\ [][PollNext]_vars

\* The dashboard's chat
SpecChat == Init /\ [][ChatNext]_vars

\* The voice loop and the dashboard's chat, both logging
SpecLogging == InitVoice /\ [][LoggingNext]_vars

\* The speed test of the dashboard and of the system_insights tool
SpecSpeed == InitSpeed /\ [][SpeedNext]_vars

\* The speed test with its thread running to the end of the measurement and
\* the UI loop running the callbacks handed to it
SpecSpeedFair ==
    /\ SpecSpeed
    /\ WF_vars(\E ok \in BOOLEAN : SpeedtestThread(ok))
    /\ WF_vars(SetSpeedResult)

\* The tool functions called one after the other
SpecTools == InitTools /\ [][ToolsNext]_vars

\* The samplers of system metrics
SpecVitals == InitVitals /\ [][VitalsNext]_vars

\* The launcher and its children
SpecLauncher == InitLauncher /\ [][LauncherNext]_vars

\* The launcher and its children, main() never stopping between two
\* statements
SpecLauncherFair == SpecLauncher /\ WF_vars(LauncherStep)

---------------------------------------------------------------------------
(* Properties of the voice loop *)

\* The Events a reader finds in a piece of the log: its newline-terminated
\* lines that are the JSON text of an Event, in order.
RECURSIVE EventsOfLines(_)
EventsOfLines(lines) ==
    IF lines = <<>> THEN <<>>
    ELSE LET l == Head(lines)
             r == JsonLoads(Strip(l))
         IN  (IF l[Len(l)] = NL /\ r.ok THEN <<r.ev>> ELSE <<>>)
             \o EventsOfLines(Tail(lines))

\* What the last step of the voice loop added to the log
AppendedByVoice ==
    EventsOfLines(ReadLines(SubSeq(logFile, vlast.lenBefore + 1, Len(logFile))))

\* The utterances of Utterances that hold "jarvis" in some mix of cases
WakeUtterances == {1, 2, 3, 4}

\* C2 (as claimed): when a listen attempt made in CONVERSATION fails, by
\* WaitTimeoutError or by UnknownValueError, and more than 30 s have passed
\* since last_interaction_time, the loop is back in WAKE_WORD_WAIT.
C2_InactivityLeavesConversation ==
    ( /\ vlast.op = "listen"
      /\ vlast.outcome \in {"timeout", "unknown"}
      /\ vlast.modeBefore
      /\ now - last_interaction_time > CONVERSATION_TIMEOUT )
    => ~conversation_mode

\* C5 (as claimed): after an agent failure the loop has appended the error
\* Event and starts the next listen attempt in CONVERSATION, whatever the time
\* since last_interaction_time.
C5_FailureKeepsConversation ==
    (vlast.op = "agent" /\ vlast.outcome = "fail")
    => /\ vpc = "listen"
       /\ AppendedByVoice =
              (IF vlast.wrote THEN <<VoiceError("Agent failure")>> ELSE <<>>)
       /\ conversation_mode

\* C5 (amended): after an agent failure the loop has appended exactly the error
\* Event (nothing when the best-effort write failed), has left
\* last_interaction_time as it was, and starts the next listen attempt in
\* CONVERSATION if and only if no more than 30 s have passed since
\* last_interaction_time at the check of main.py:168.
C5_FailureKeepsConversationWithinTimeout ==
    (vlast.op = "agent" /\ vlast.outcome = "fail")
    => /\ vpc = "listen"
       /\ AppendedByVoice =
              (IF vlast.wrote THEN <<VoiceError("Agent failure")>> ELSE <<>>)
       /\ last_interaction_time = vlast.lastBefore
       /\ conversation_mode = (now - last_interaction_time <= CONVERSATION_TIMEOUT)

\* C5 witness: an agent failure later than 30 s after the last interaction
\* has been logged and the loop listens again.
C5_Witness ==
    /\ vlast.op = "agent"
    /\ vlast.outcome = "fail"
    /\ vlast.wrote
    /\ vpc = "listen"
    /\ now - last_interaction_time > CONVERSATION_TIMEOUT

\* C8: in WAKE_WORD_WAIT a transcript holding "jarvis" in any mix of cases puts
\* the loop in CONVERSATION with last_interaction_time = now, and the log gains
\* exactly one status Event "Wake word detected" (nothing when the best-effort
\* write failed).
C8_WakeWordStartsConversation ==
    ( /\ vlast.op = "listen"
      /\ vlast.outcome = "heard"
      /\ ~vlast.modeBefore
      /\ vlast.heard \in WakeUtterances )
    => /\ conversation_mode
       /\ last_interaction_time = now
       /\ vpc = "listen"
       /\ AppendedByVoice =
              (IF vlast.wrote THEN <<VoiceStatus("Wake word detected")>> ELSE <<>>)

\* C8 witness: "JARVIS yes", upper case, has just been heard while waiting
\* and its status Event is in the log.
C8_Witness ==
    /\ vlast.op = "listen"
    /\ vlast.outcome = "heard"
    /\ ~vlast.modeBefore
    /\ vlast.heard = 3
    /\ vlast.wrote
    /\ conversation_mode

---------------------------------------------------------------------------
(* Properties of the dashboard *)

\* How many Events of a sequence are of the assistant kind
RECURSIVE AssistantCount(_)
AssistantCount(events) ==
    IF events = <<>> THEN 0
    ELSE (IF Head(events).kind = "assistant" THEN 1 ELSE 0) + AssistantCount(Tail(events))

\* The dashboard has read the log to its end and no typed exchange is under way
AllProcessed ==
    /\ log_pos = Len(logFile)
    /\ agentWorkers = 0
    /\ uiQueue = <<>>

\* C1 (as claimed): once the dashboard has processed every line of the log,
\* convo_count is the number of assistant Events it has read from the log; an
\* exchange typed into the dashboard, whose assistant Event reached the log
\* (no write of the dashboard failed), counts once.
C1_ExchangeCountIsAssistantEventsRead ==
    (AllProcessed /\ ~hist.dropped)
    => hud.convo_count = AssistantCount(hud.handled)

\* The Events the log holds as whole lines up to offset n
EventsUpTo(n) == EventsOfLines(ReadLines(SubSeq(logFile, 1, n)))

\* C3 (as claimed): whatever the writer and the polling tick interleave, the
\* reader stops only at the end of a newline-terminated record, and every Event
\* the log holds as a whole line up to the read offset has been handled: none
\* is lost or split across two polls.
C3_ReaderSeesWholeRecords ==
    /\ (log_pos = 0 \/ logFile[log_pos] = NL)
    /\ hud.handled = EventsUpTo(log_pos)

\* A line as the reader takes an Event from it
ValidLine(l) == l[Len(l)] = NL /\ JsonLoads(Strip(l)).ok

\* A newline-terminated line that is not the JSON text of an Event
MalformedLine(l) == l[Len(l)] = NL /\ ~JsonLoads(Strip(l)).ok

\* The lines the last polling tick read
LastTickLines == ReadLines(SubSeq(logFile, hist.from + 1, hist.eof))

\* The last polling tick read a malformed line between two valid Event lines
MalformedBetweenValid ==
    /\ hist.read
    /\ \E i \in 1..(Len(LastTickLines) - 2) :
           /\ ValidLine(LastTickLines[i])
           /\ MalformedLine(LastTickLines[i + 1])
           /\ ValidLine(LastTickLines[i + 2])

\* The last n elements of a sequence
LastN(seq, n) == SubSeq(seq, Len(seq) - n + 1, Len(seq))

\* C4: a polling tick that reads a malformed line between two valid Event
\* lines hands every valid Event of what it read to _handle_event, in log
\* order, and leaves the read offset at the end of the file as it was read,
\* past the malformed line.
C4_MalformedLineSkipped ==
    MalformedBetweenValid
    => LET events == EventsOfLines(LastTickLines)
       IN  /\ log_pos = hist.eof
           /\ Len(hud.handled) >= Len(events)
           /\ LastN(hud.handled, Len(events)) = events

\* C4 witness: the tick has read such a log and handled its two Events
C4_Witness ==
    /\ MalformedBetweenValid
    /\ Len(EventsOfLines(LastTickLines)) >= 2
    /\ LastN(hud.handled, 2) = LastN(EventsOfLines(LastTickLines), 2)
    /\ log_pos = hist.eof

\* The assistant Events handled so far
AssistantsHandled == SelectSeq(hud.handled, LAMBDA e : e.kind = "assistant")

\* C10 (as claimed): when the assistant Event processed last carries
\* latency_ms = L, L >= 0, the latency a vitals tick shows after it is L ms.
C10_ShownLatencyIsLastAssistant ==
    ( /\ AssistantsHandled # <<>>
      /\ AssistantsHandled[Len(AssistantsHandled)].latency_ms >= 0
      /\ resp_label = ShownLatency(hud) )
    => resp_label = AssistantsHandled[Len(AssistantsHandled)].latency_ms

\* The dashboard's button alone never has two measurements going, and while
\* speed_running is true the label reads "running"
ButtonMeasurementsExclusive ==
    /\ speed.workers + Len(speed.results) <= 1
    /\ (speed.running <=> speed.workers + Len(speed.results) = 1)
    /\ (speed.running => speed.text = "running")

\* C7 (as claimed): at most one network speed measurement is in progress at
\* any time, and while speed_running is true the displayed status stays at
\* "running", whatever presses, completions and callbacks interleave.
C7_OneSpeedMeasurement ==
    /\ speed.workers + speed.toolRuns <= 1
    /\ (speed.running => speed.text = "running")

---------------------------------------------------------------------------
(* Properties of the tools *)

\* C6 (as claimed): every tool call returns a string; no exception leaves a
\* tool function.
C6_ToolsReturnStrings == toolRet.kind # "raise"

\* What a fresh load of the store shows
FreshLoad == LoadTasks(todoFile)

\* C9 (as claimed): after a todo_add of a non-blank task that returned, a fresh
\* load shows the records stored before followed by the new record with the
\* stripped task and done = false; after a todo_complete that reported an id
\* complete, a fresh load shows every record that was given that id with
\* done = true.
C9_TodoStoreRoundTrips ==
    /\ (toolRet.tool = "todo_add" /\ toolRet.kind = "string" /\ toolRet.task # <<>>)
       => FreshLoad = Append(toolRet.before, Task(toolRet.id, toolRet.task, FALSE))
    /\ (toolRet.tool = "todo_complete" /\ toolRet.kind = "string"
          /\ toolRet.text = "marked complete")
       => \A i \in DOMAIN FreshLoad :
              FreshLoad[i].id = toolRet.id => FreshLoad[i].done

---------------------------------------------------------------------------
(* Properties of the dashboard's threads *)

\* C11 (as claimed): a step of a worker thread (_run_agent or
\* _speedtest_thread ending, well or with an exception) leaves the view state
\* as it was and hands exactly one callback to the UI thread.
C11_WorkersLeaveViewAlone ==
    [][ /\ (agentWorkers' < agentWorkers)
           => (hud' = hud /\ Len(uiQueue') = Len(uiQueue) + 1)
        /\ (speed'.workers < speed.workers)
           => /\ speed'.text = speed.text
              /\ speed'.running = speed.running
              /\ Len(speed'.results) = Len(speed.results) + 1 ]_vars

\* The last polling tick read an Event _handle_event raised on, followed by a
\* valid Event line
RaisingBeforeValid ==
    /\ hist.read
    /\ \E i \in 1..(Len(LastTickLines) - 1) :
           /\ ValidLine(LastTickLines[i])
           /\ HandleRaises(JsonLoads(Strip(LastTickLines[i])).ev)
           /\ ValidLine(LastTickLines[i + 1])

\* C12: the polling tick always leaves its next run scheduled; a tick that
\* found no file or could not open it leaves the read offset and the view
\* state as they were; and an Event _handle_event raises on does not keep the
\* Events on the lines after it from being handled in the same tick.
C12_TickNeverRaises ==
    /\ [](hud.watch_after)
    /\ [](RaisingBeforeValid
            => LET events == EventsOfLines(LastTickLines)
               IN  /\ Len(hud.handled) >= Len(events)
                   /\ LastN(hud.handled, Len(events)) = events)
    /\ [][WatchEvents(FALSE) => (log_pos' = log_pos /\ hud' = hud)]_vars

\* C12 witness: a tick has handled the Event after one that raised, and the
\* next tick is scheduled
C12_Witness ==
    /\ RaisingBeforeValid
    /\ Len(hud.handled) >= 2
    /\ HandleRaises(hud.handled[Len(hud.handled) - 1])
    /\ hud.watch_after

\* C13: over polling ticks and log appends the read offset and the exchange
\* count never decrease, and after a tick that found the file the offset is
\* the end of the file as it was when the tick read it.
C13_OffsetAndCountNeverDecrease ==
    /\ [][log_pos' >= log_pos /\ hud'.convo_count >= hud.convo_count]_vars
    /\ [](hist.read => log_pos = hist.eof)

\* C13 witness: a tick that started past the beginning of the file advanced
\* the offset to the end of the file and counted an exchange
C13_Witness ==
    /\ hist.read
    /\ hist.from > 0
    /\ log_pos > hist.from
    /\ log_pos = hist.eof
    /\ hud.convo_count > 0

---------------------------------------------------------------------------
(* Properties of the log *)

\* a is a prefix of b
IsPrefix(a, b) == Len(a) <= Len(b) /\ SubSeq(b, 1, Len(a)) = a

\* The log holds a line written by the given session
HoldsLineOf(session) ==
    \E i \in DOMAIN logFile : logFile[i].sym = "H" /\ logFile[i].ev.session = session

\* C14: the log is append-only: at every step of the voice loop's log_event,
\* the dashboard's _log_event and the polling tick, what the log held before
\* the step is a prefix of what it holds after it, and a step that moves the
\* read offset writes nothing.
C14_LogIsAppendOnly ==
    [][ /\ IsPrefix(logFile, logFile')
        /\ (log_pos' # log_pos => logFile' = logFile) ]_vars

\* C14 witness: both processes have appended to the log and the dashboard has
\* read it
C14_Witness ==
    /\ HoldsLineOf("voice")
    /\ HoldsLineOf("hud")
    /\ log_pos = Len(logFile)

\* Where the voice loop is after its last step, as the code has it when
\* log_event returns: the same whether or not the write failed
VoiceContinuesAfterLog ==
    /\ (vlast.op = "boot" /\ vlast.outcome = "ok") => vpc \in {"listen", "exited"}
    /\ (vlast.op = "boot" /\ vlast.outcome = "fail") => vpc = "aborted"
    /\ (vlast.op = "listen" /\ vlast.outcome = "heard" /\ vlast.modeBefore)
       => /\ vpc = "invoking"
          /\ conversation_mode
          /\ last_interaction_time = vlast.lastBefore
    /\ (vlast.op = "listen" /\ vlast.outcome = "heard" /\ ~vlast.modeBefore
          /\ vlast.heard \in WakeUtterances)
       => /\ vpc = "listen"
          /\ conversation_mode
          /\ last_interaction_time = now
    /\ (vlast.op = "agent" /\ vlast.outcome = "ok")
       => /\ vpc = "listen"
          /\ conversation_mode = vlast.modeBefore
          /\ last_interaction_time = now
    /\ (vlast.op = "agent" /\ vlast.outcome = "fail")
       => /\ vpc = "listen"
          /\ conversation_mode = AfterCommand(vlast.modeBefore, vlast.lastBefore, now)
          /\ last_interaction_time = vlast.lastBefore

\* What _on_send and _finish_response do to the view and the workers, as the
\* code has it when _log_event returns: the same whether or not the write
\* failed
HudContinuesAfterLog ==
    /\ (hist'.sends = hist.sends + 1)
       => IF executor
          THEN /\ agentWorkers' = agentWorkers + 1
               /\ hud' = [hud EXCEPT !.chat = Append(@, <<"user", "typed">>),
                                     !.thinking = TRUE]
          ELSE /\ agentWorkers' = agentWorkers
               /\ hud' = [hud EXCEPT !.chat = @ \o << <<"user", "typed">>,
                                                     <<"meta", "Jarvis not ready">> >>]
    /\ (Len(uiQueue') < Len(uiQueue))
       => /\ ~hud'.thinking
          /\ hud'.chat = Append(hud.chat, <<"jarvis", Head(uiQueue).content>>)
          /\ Head(uiQueue).success
             => /\ hud'.convo_count = hud.convo_count + 1
                /\ hud'.last_latency = Head(uiQueue).latency

\* C15: a failed write of log_event or _log_event is swallowed: the voice loop
\* and the dashboard go on with the same control step, conversation_mode,
\* last_interaction_time and view state as after a write that succeeded.
C15_FailedLogWriteIsSwallowed ==
    /\ [](VoiceContinuesAfterLog)
    /\ [][HudContinuesAfterLog]_vars

\* C15 witness: the write of the user Event failed in the voice loop, which
\* is invoking the agent, and a write of the dashboard failed, whose worker
\* runs
C15_Witness ==
    /\ vlast.op = "listen" /\ vlast.outcome = "heard" /\ vlast.modeBefore
    /\ ~vlast.wrote
    /\ Len(logFile) = 0
    /\ vpc = "invoking"
    /\ hist.dropped
    /\ agentWorkers = 1
    /\ hud.thinking

---------------------------------------------------------------------------
(* Properties of the launcher *)

\* No child process is running
NoChildAlive == \A c \in ScriptNames : children[c].state # "alive"

\* terminate() was sent to no child
NoneTerminated == \A c \in ScriptNames : ~children[c].terminated

\* main() is past lines 22-25
InPollingLoop == launcher.pc \in {"while", "poll", "assign", "sleep"}

\* C16: without an interrupt the launcher exits exactly when every child it
\* launched has exited: it has not returned while a child is alive, once no
\* child is alive it returns after at most one more round of its polling
\* loop, it sends terminate() to no child, and no exited child runs again.
C16_LauncherExitsWhenChildrenExited ==
    /\ []((launcher.pc = "exited" /\ ~launcher.interrupted) => NoChildAlive)
    /\ [](~launcher.interrupted => NoneTerminated)
    /\ [][\A c \in ScriptNames :
             children[c].state = "exited" => children'[c].state = "exited"]_vars
    /\ ((InPollingLoop /\ NoChildAlive) ~> (launcher.pc = "exited"))

\* C16 witness: both children were launched and have exited, and the
\* launcher returned without an interrupt and without a terminate()
C16_Witness ==
    /\ launcher.pc = "exited"
    /\ ~launcher.interrupted
    /\ \A c \in ScriptNames : children[c].state = "exited"
    /\ NoneTerminated

\* C17: when Ctrl-C interrupts the launcher, every child it launched that is
\* still alive has been sent terminate() by the time the launcher returns,
\* wherever the interrupt arrived, and terminate() is sent to no child that
\* has exited.
C17_InterruptTerminatesLiveChildren ==
    /\ []((launcher.pc = "exited" /\ launcher.interrupted)
           => \A c \in ScriptNames :
                  children[c].state = "alive" => children[c].terminated)
    /\ [][\A c \in ScriptNames :
             (children'[c].terminated /\ ~children[c].terminated)
                 => children[c].state = "alive"]_vars

---------------------------------------------------------------------------
(* Properties of startup and of agent failures *)

\* The Events the log holds, whoever wrote them
LoggedEvents == EventsUpTo(Len(logFile))

\* The voice process stops at a model that does not load: it never listens,
\* the log has no "listening for wake word" Event, and it has the error
\* Event when the write went through
VoiceAbortsStartup ==
    (vlast.op = "boot" /\ vlast.outcome = "fail")
        => /\ vpc = "aborted"
           /\ \A i \in DOMAIN LoggedEvents :
                  LoggedEvents[i] # VoiceStatus("Jarvis listening for wake word")
           /\ vlast.wrote
                  => \E i \in DOMAIN LoggedEvents :
                         LoggedEvents[i] = VoiceError("Failed to load model")

\* C18: a model or agent that fails to initialize aborts startup. The voice
\* process appends the error Event and never enters its listening loop, and
\* the dashboard whose agent was not made does not go on to normal operation:
\* it handles no input, shows nothing new and starts no agent call.
C18_StartupFailureAborts ==
    /\ [](VoiceAbortsStartup)
    /\ [][~executor => (hud' = hud /\ agentWorkers' = agentWorkers)]_vars

\* The "Error" replies the chat shows
ErrorLines == {i \in DOMAIN hud.chat : hud.chat[i] = <<"jarvis", "Error">>}

\* The error Events of the dashboard in the log
HudErrorEvents ==
    {i \in DOMAIN LoggedEvents :
        LoggedEvents[i].kind = "error" /\ LoggedEvents[i].session = "hud"}

\* C19: every failure of an agent invocation gives feedback to the user and
\* appends exactly one error Event, and the process goes on. For the voice
\* loop the failing step appends one error Event and returns to listening;
\* for the dashboard the log holds one error Event of the dashboard for each
\* "Error" reply shown in the chat.
C19_AgentFailureLogsOneError ==
    /\ [][(vpc = "invoking" /\ vlast'.op = "agent" /\ vlast'.outcome = "fail"
             /\ vlast'.wrote)
           => /\ logFile' = logFile \o JsonDump(VoiceError("Agent failure")) \o <<NL>>
              /\ vpc' = "listen"]_vars
    /\ [](Cardinality(ErrorLines) = Cardinality(HudErrorEvents))

---------------------------------------------------------------------------
(* Properties of _handle_event *)

\* The kinds _handle_event has a branch for
KnownKinds == {"user", "assistant", "status", "error"}

\* The view state: what the window shows
ViewOf(h) ==
    [chat |-> h.chat, convo_count |-> h.convo_count,
     last_latency |-> h.last_latency,
     agent_status_text |-> h.agent_status_text,
     agent_detail_text |-> h.agent_detail_text,
     status_label |-> h.status_label]

\* The Event without the keys the schema does not have
Plain(e) == [f \in DOMAIN NoEvent |-> e[f]]

\* The view after the Events of known kinds among events, each without its
\* extra keys, and nothing else
RECURSIVE FoldKnown(_, _)
FoldKnown(h, events) ==
    IF events = <<>> THEN h
    ELSE FoldKnown(IF Head(events).kind \in KnownKinds
                   THEN HandleEvent(h, Plain(Head(events)))
                   ELSE h,
                   Tail(events))

\* The Events the step handled
NewlyHandled == LastN(hud'.handled, Len(hud'.handled) - Len(hud.handled))

\* C20: an Event whose kind is none of user, assistant, status, error leaves
\* the view state unchanged, and extra keys on an Event of a known kind do not
\* change how it is handled: after every polling tick the view is what the
\* Events of known kinds, without their extra keys, give.
C20_UnknownKindsAndFieldsIgnored ==
    [][Len(hud'.handled) > Len(hud.handled)
           => ViewOf(hud') = ViewOf(FoldKnown(hud, NewlyHandled))]_vars

\* C20 witness: a tick has handled an Event of an unknown kind and then an
\* assistant Event with one more key, and the view shows the one reply
C20_Witness ==
    /\ Len(hud.handled) = 2
    /\ hud.handled[1] = ForeignEvent
    /\ hud.handled[2] = WithExtra(VoiceAssistant("reply", 842, FALSE))
    /\ hud.convo_count = 1
    /\ Len(hud.chat) = 2
    /\ hud.agent_status_text = AgentStatusText(executor)

---------------------------------------------------------------------------
(* Properties of the dashboard's agent calls *)

\* The agent calls of the chat that are outstanding: the threads running and
\* the results whose _finish_response has not run
Outstanding == agentWorkers + Len(uiQueue)

\* C21: the dashboard has no mutual exclusion on the agent calls of its chat
\* input: a send made while a call is outstanding starts one more worker, so
\* two calls are outstanding at once.
C21_SendWhileThinkingStartsWorker ==
    [][(hist'.sends = hist.sends + 1 /\ executor /\ Outstanding >= 1)
           => (agentWorkers' = agentWorkers + 1 /\ Outstanding' = Outstanding + 1)]_vars

\* C21 witness: two agent threads of the chat run at the same time
C21_Witness ==
    /\ agentWorkers = 2
    /\ hud.thinking
    /\ hist.sends = 2

---------------------------------------------------------------------------
(* Properties of the samplers of system metrics *)

\* The fixed texts a sampler gives for a capability it does not find
NotAvailable ==
    {"GPU: n/a", "Wi-Fi: n/a", "IP: n/a", "Battery: n/a",
     "Battery: not detected", "CPU: install psutil"}

\* The dashboard's samplers on the machine they last looked at
DashboardSamplersDegrade ==
    LET host == vitals.shown.seen
    IN  /\ host.nvidia # "ok" => vitals.shown.gpu_text = "GPU: n/a"
        /\ host.netsh # "ok" => vitals.shown.wifi_text = "Wi-Fi: n/a"
        /\ ~host.psutil => vitals.shown.ip_text = "IP: n/a"
        /\ ~host.psutil => vitals.shown.batt_text = "Battery: n/a"
        /\ (host.psutil /\ ~host.battery)
               => vitals.shown.batt_text = "Battery: not detected"

\* The capability the sampler of system_insights needs is absent
CapabilityAbsent(name, host) ==
    CASE name = "cpu" -> ~host.psutil
      [] name = "gpu" -> host.nvidia # "ok"
      [] name = "wifi" -> host.netsh # "ok"
      [] name = "battery" -> ~host.psutil \/ ~host.battery
      [] OTHER -> FALSE

\* C22: every sampler of system metrics, of the dashboard and of
\* system_insights, gives a fixed "not available" text and does not raise
\* when what it samples is absent: the library is missing, nvidia-smi or
\* netsh is not installed or fails, there is no battery.
C22_SamplersDegrade ==
    /\ DashboardSamplersDegrade
    /\ CapabilityAbsent(vitals.tool.name, vitals.tool.host)
           => /\ vitals.tool.out # Raised
              /\ vitals.tool.out[1] \in NotAvailable

---------------------------------------------------------------------------
(* Properties of the voice loop's Events *)

\* The Events of the voice session in the log, in log order
VoiceLogged == SelectSeq(LoggedEvents, LAMBDA e : e.session = "voice")

\* The places of the assistant and error Events that follow the user Event
\* at place i before the next user Event
FollowUps(i) ==
    {j \in (i + 1)..Len(VoiceLogged) :
        /\ VoiceLogged[j].kind \in {"assistant", "error"}
        /\ \A k \in (i + 1)..(j - 1) : VoiceLogged[k].kind # "user"}

\* No user Event of the voice loop is followed by more than one assistant or
\* error Event
AtMostOneFollowUp ==
    \A i \in DOMAIN VoiceLogged :
        VoiceLogged[i].kind = "user" => Cardinality(FollowUps(i)) <= 1

\* C23: every user Event the voice loop appends is followed by exactly one
\* assistant Event or exactly one error Event of the voice session before the
\* next user Event (none yet while the agent is being invoked for it), and
\* the user Event is in the log before the agent is invoked.
C23_UserEventHasOneFollowUp ==
    /\ \A i \in DOMAIN VoiceLogged :
           VoiceLogged[i].kind = "user"
               => Cardinality(FollowUps(i)) =
                      (IF vpc = "invoking" /\ i = Len(VoiceLogged) THEN 0 ELSE 1)
    /\ vpc = "invoking"
           => /\ VoiceLogged # <<>>
              /\ VoiceLogged[Len(VoiceLogged)].kind = "user"

\* C24: a listen timeout, an unintelligible capture or any other exception
\* of the recognition leaves the loop running at its next listen attempt,
\* appends no Event, invokes no agent and keeps conversation_mode and
\* last_interaction_time, but for the timeout that finds more than 30 s of
\* inactivity in CONVERSATION, which returns to WAKE_WORD_WAIT.
C24_ListenFailuresChangeNothing ==
    (vlast.op = "listen" /\ vlast.outcome \in {"timeout", "unknown", "error"})
    => /\ vpc = "listen"
       /\ Len(logFile) = vlast.lenBefore
       /\ last_interaction_time = vlast.lastBefore
       /\ conversation_mode =
              (IF /\ vlast.outcome = "timeout"
                  /\ vlast.modeBefore
                  /\ now - vlast.lastBefore > CONVERSATION_TIMEOUT
               THEN FALSE
               ELSE vlast.modeBefore)

\* C24 witness: an unintelligible capture more than 30 s after the last
\* interaction has left the loop in CONVERSATION, listening
C24_Witness ==
    /\ vlast.op = "listen"
    /\ vlast.outcome = "unknown"
    /\ vlast.modeBefore
    /\ now - last_interaction_time > CONVERSATION_TIMEOUT
    /\ conversation_mode
    /\ vpc = "listen"

---------------------------------------------------------------------------
(* Properties of what the launcher starts *)

\* The child was started at some time
Started(c) == children[c].state # "none"

\* The flag given for the child: --no-hud for the dashboard, --no-voice for
\* the voice loop
FlagGiven(c) ==
    \/ (c = "jarvis_desktop.py" /\ launcher.no_hud)
    \/ (c = "main.py" /\ launcher.no_voice)

\* main() went through lines 22-25 without an interrupt
LaunchingDone ==
    \/ InPollingLoop
    \/ (launcher.pc \in {"finally", "exited"} /\ ~launcher.interrupted)

\* C25: the launcher starts the dashboard exactly when --no-hud is absent and
\* the voice loop exactly when --no-voice is absent, starts each at most
\* once, never starts again a child that has run, and with both flags starts
\* nothing and exits.
C25_LauncherStartsWhatFlagsAllow ==
    /\ [](\A c \in ScriptNames : Started(c) => ~FlagGiven(c))
    /\ [](LaunchingDone
            => \A c \in ScriptNames : ~FlagGiven(c) => Started(c))
    /\ [][\A c \in ScriptNames :
             (Started(c) /\ children[c].state # "alive")
                 => children'[c].state # "alive"]_vars
    /\ [][\A c \in ScriptNames :
             (children[c].state = "alive" /\ launcher.pc = "launch")
                 => (launcher'.pc # "append" \/ Scripts[launcher.i] # c)]_vars
    /\ ((launcher.no_hud /\ launcher.no_voice) ~> (launcher.pc = "exited"))

\* C25 witness: started with --no-hud alone, the launcher has run the voice
\* loop to its end and returned, and the dashboard never ran
C25_Witness ==
    /\ launcher.no_hud
    /\ ~launcher.no_voice
    /\ launcher.pc = "exited"
    /\ ~launcher.interrupted
    /\ children["jarvis_desktop.py"].state = "none"
    /\ children["main.py"].state = "exited"

---------------------------------------------------------------------------
(* Properties of conversation_mode and last_interaction_time *)

\* C26: the voice loop leaves CONVERSATION only at a check that finds
\* now - last_interaction_time strictly greater than 30 s, so never within
\* 30 s of the wake word or of the last reply that was spoken.
C26_LeavesConversationOnlyAfterTimeout ==
    [][(conversation_mode /\ ~conversation_mode')
           => /\ last_interaction_time' = last_interaction_time
              /\ now' - last_interaction_time > CONVERSATION_TIMEOUT]_vars

\* C26 witness: a listen timeout 40 s after the last interaction has put the
\* loop back in WAKE_WORD_WAIT, the one 30 s after it having left it in
\* CONVERSATION
C26_Witness ==
    /\ vlast.op = "listen"
    /\ vlast.outcome = "timeout"
    /\ vlast.modeBefore
    /\ ~conversation_mode
    /\ now - last_interaction_time = CONVERSATION_TIMEOUT + LISTEN_TIMEOUT

\* C27: whenever conversation_mode is true last_interaction_time is set, so
\* the inactivity comparisons of main.py:168 and 176 never meet None.
C27_ConversationHasTimestamp ==
    conversation_mode => last_interaction_time # Absent

\* C27 witness: the timeout handler made its comparison in CONVERSATION with
\* the timestamp the wake word set
C27_Witness ==
    /\ vlast.op = "listen"
    /\ vlast.outcome = "timeout"
    /\ vlast.modeBefore
    /\ vlast.lastBefore # Absent
    /\ conversation_mode
    /\ last_interaction_time = vlast.lastBefore

\* The user Events among the Events of the log
UserEvents == SelectSeq(LoggedEvents, LAMBDA e : e.kind = "user")

\* C28: the voice loop invokes the agent and appends user Events only in
\* CONVERSATION. An utterance heard in WAKE_WORD_WAIT, the one with the wake
\* word included, is not forwarded to the agent and not logged as a user
\* Event, and an utterance without the wake word leaves the loop in
\* WAKE_WORD_WAIT with nothing appended.
C28_OnlyConversationReachesAgent ==
    /\ (vlast.op = "listen" /\ vlast.outcome = "heard" /\ ~vlast.modeBefore)
           => /\ vpc = "listen"
              /\ vlast.heard \notin WakeUtterances
                     => /\ ~conversation_mode
                        /\ Len(logFile) = vlast.lenBefore
                        /\ last_interaction_time = vlast.lastBefore
    /\ vpc = "invoking" => (vlast.modeBefore /\ conversation_mode)
    /\ (\E i \in DOMAIN AppendedByVoice : AppendedByVoice[i].kind = "user")
           => vlast.modeBefore

\* C28 witness: "hey Jarvis" was heard in WAKE_WORD_WAIT and logged as a
\* status Event only, and the agent was not invoked
C28_Witness ==
    /\ vlast.op = "listen"
    /\ vlast.outcome = "heard"
    /\ ~vlast.modeBefore
    /\ vlast.heard = 2
    /\ vlast.wrote
    /\ AppendedByVoice = <<VoiceStatus("Wake word detected")>>
    /\ UserEvents = <<>>
    /\ vpc = "listen"

---------------------------------------------------------------------------
(* Properties of what the dashboard has handled *)

\* No record of the log was written in two parts
WrittenWhole ==
    /\ vwriting = NoEvent
    /\ \A i \in DOMAIN logFile : ~logFile[i].ev.big

\* The Events handled are those of the complete valid lines before the read
\* offset, when every record was written whole
HandledOnceWhenWrittenWhole ==
    WrittenWhole => hud.handled = EventsUpTo(log_pos)

\* C29: polling from offset 0, the dashboard hands every complete valid Event
\* line of the log to _handle_event exactly once and in log order: what it
\* has handled is the Events of the valid lines before its read offset, none
\* skipped and none twice.
C29_EveryLineHandledOnce ==
    hud.handled = EventsUpTo(log_pos)

\* C30: the thinking indicator is true in every state where an agent call of
\* the chat is outstanding (its thread was started and its _finish_response
\* has not run) and false when none is, whatever the order of sends and
\* completions.
C30_ThinkingIffOutstanding ==
    hud.thinking <=> (Outstanding >= 1)

\* With one send at most the indicator does follow the outstanding call
ThinkingFollowsSingleCall ==
    hist.sends <= 1 => (hud.thinking <=> (Outstanding >= 1))

---------------------------------------------------------------------------
(* Properties of the dashboard's speed test *)

\* C31: every speed test the dashboard starts clears speed_running in the
\* end. The worker hands _set_speed_result to the UI thread whether the
\* measurement succeeded or raised, _set_speed_result stores the text and
\* resets the flag, a press made after that starts a new test, and a press
\* without the speedtest library starts no worker and leaves the flag false.
C31_SpeedTestClearsFlag ==
    /\ (speed.running ~> ~speed.running)
    /\ [][speed'.workers < speed.workers
             => Len(speed'.results) = Len(speed.results) + 1]_vars
    /\ [][Len(speed'.results) < Len(speed.results)
             => (speed'.text = Head(speed.results) /\ ~speed'.running)]_vars
    /\ [][(speed'.presses > speed.presses /\ ~speed.running /\ speed.lib)
             => (speed'.running /\ speed'.workers = speed.workers + 1)]_vars
    /\ [][(speed'.presses > speed.presses /\ ~speed.lib)
             => (~speed'.running /\ speed'.workers = speed.workers)]_vars

\* C31 witness: a measurement raised, its text is shown and the flag is
\* clear again, after a press that was made while it ran
C31_Witness ==
    /\ speed.text = "failed"
    /\ ~speed.running
    /\ speed.workers = 0
    /\ speed.results = <<>>
    /\ speed.presses = 2

---------------------------------------------------------------------------
(* Properties of the to-do store *)

\* The places of the records of tasks that carry the id
PlacesOf(tasks, id) == {i \in DOMAIN tasks : tasks[i].id = id}

\* The least of a non-empty set of numbers
Least(S) == CHOOSE i \in S : \A j \in S : i <= j

\* The last call was a todo_complete that returned "marked complete"
Completed ==
    /\ toolRet.tool = "todo_complete"
    /\ toolRet.kind = "string"
    /\ toolRet.text = "marked complete"

\* C32: todo_complete(id) sets done = true on the first stored record with
\* that id and on no other, and keeps every other record and the order of the
\* records; called again with the same id it leaves the file as it is; and
\* todo_complete with an id that is not a number or not in the store, like
\* todo_add with a blank task, leaves the file unchanged.
C32_CompleteMarksFirstRecordOnly ==
    /\ [](Completed
            => /\ PlacesOf(toolRet.before, toolRet.id) # {}
               /\ FreshLoad =
                      [toolRet.before EXCEPT
                          ![Least(PlacesOf(toolRet.before, toolRet.id))].done = TRUE])
    /\ [][(Completed /\ Completed' /\ toolRet'.id = toolRet.id)
             => todoFile' = todoFile]_vars
    /\ [][(toolRet' # toolRet
              /\ toolRet'.tool \in {"todo_complete", "todo_add"}
              /\ toolRet'.text \in {"numeric", "not found", "provide"})
             => todoFile' = todoFile]_vars

\* C32 witness: of two records with the same id the first was marked and the
\* second was left as it was
C32_Witness ==
    /\ Completed
    /\ Len(FreshLoad) = 2
    /\ FreshLoad[1].id = FreshLoad[2].id
    /\ FreshLoad[1].done
    /\ ~FreshLoad[2].done
    /\ ~toolRet.before[1].done

\* The last call was a todo_add that returned the id of the task it stored
Added ==
    /\ toolRet.tool = "todo_add"
    /\ toolRet.kind = "string"
    /\ toolRet.text = "added"

\* C33: after any sequence of todo_add and todo_complete calls the ids of the
\* stored records are pairwise distinct, two adds within one millisecond of
\* the clock included, so that the id todo_add returned belongs to the record
\* it stored and to no other.
C33_TodoIdsDistinct ==
    /\ \A i, j \in DOMAIN FreshLoad :
           FreshLoad[i].id = FreshLoad[j].id => i = j
    /\ Added => PlacesOf(FreshLoad, toolRet.id) = {Len(FreshLoad)}

===========================================================================
